---- MODULE Spec2Model ----
(***************************************************************************)
(* Model of meld's DataStore (src/meld/vault.py): the Data/ directory with *)
(* its pickled sidecar files, the results.h5 container with six datasets   *)
(* that have one stage axis, and the Data/Backup/ copies made by backup.   *)
(*                                                                         *)
(* Arrays are modelled by their outer shape and one value per replica (the *)
(* block of a replica is uniform, as in the functional tests, which fill   *)
(* test_pos[i, :, :] = i).  Stored values are floats; the small integers   *)
(* used here convert exactly, so a stored value equals the value written.  *)
(***************************************************************************)
EXTENDS Integers, Sequences, FiniteSets, TLC

\* ---------------------------------------------------------------- bounds
NAtoms == 1
NSprings == 1
NReplicas == 2
MaxVal == 1
MaxStage == 1
MaxFreq == 2
MaxRunner == 1
MaxOps == 3

\* ------------------------------------------------------------- constants
Quantities ==
    {"positions", "velocities", "spring_states", "spring_energies", "lambdas", "energies"}

\* a path is the tuple of its components
data_dir == <<"Data">>
backup_dir == data_dir \o <<"Backup">>
data_store_path == data_dir \o <<"data_store.dat">>
communicator_path == data_dir \o <<"communicator.dat">>
remd_runner_path == data_dir \o <<"remd_runner.dat">>
h5_path == data_dir \o <<"results.h5">>

Sidecars == {data_store_path, communicator_path, remd_runner_path}
LiveFiles == Sidecars \cup {h5_path}
BackupFiles == {backup_dir \o <<p[Len(p)]>> : p \in LiveFiles}
Paths == {data_dir, backup_dir} \cup LiveFiles \cup BackupFiles

Val == 0..MaxVal
Stages == 0..MaxStage
Modes == {"new", "existing", "safe"}

Absent == [kind |-> "absent"]
Truncated == [kind |-> "truncated"]
NoArg == [kind |-> "none"]
NoPoint == [kind |-> "nopoint"]

\* ----------------------------------------------------------------- state
VARIABLES
    store,      \* the DataStore object the program holds
    fs,         \* the file system under the run root: path -> content
    last,       \* the last call: its name, stage, argument and outcome
    nops,       \* number of calls made so far
    phase,      \* position inside a backup that runs step by step
    crashed,    \* the process has stopped
    good,       \* the files of Data/ at the last due backup that completed
    comms,      \* rank -> the MPICommunicator object of the process of that rank
    sent,       \* rank -> the arguments of the collective calls it has issued, in order
    got,        \* rank -> the results of the transfer calls that have returned, in order
    raised      \* rank -> the exception that ended its program ("none" while it runs)

\* the processes of the MPI job and what has passed between them
channel == <<comms, sent, got, raised>>

vars == <<store, fs, last, nops, phase, crashed, good, comms, sent, got, raised>>

Dir == [kind |-> "dir"]
exists(path) == fs[path] # Absent

\* ------------------------------------------------------- DataStore object
BaseDims == [n_atoms |-> NAtoms, n_springs |-> NSprings, n_replicas |-> NReplicas]

DimsSet ==
    { BaseDims,
      [BaseDims EXCEPT !.n_atoms = NAtoms + 1],
      [BaseDims EXCEPT !.n_springs = NSprings + 1],
      [BaseDims EXCEPT !.n_replicas = NReplicas - 1] }

DataStore(n_atoms, n_springs, n_replicas, backup_freq) ==
    [n_atoms |-> n_atoms, n_springs |-> n_springs, n_replicas |-> n_replicas,
     backup_freq |-> backup_freq, h5_file |-> "None"]

\* __getstate__: every field but _h5_file
getstate(s) ==
    [n_atoms |-> s.n_atoms, n_springs |-> s.n_springs, n_replicas |-> s.n_replicas,
     backup_freq |-> s.backup_freq]

\* __setstate__: the pickled fields, and _h5_file = None
setstate(d) ==
    [n_atoms |-> d.n_atoms, n_springs |-> d.n_springs, n_replicas |-> d.n_replicas,
     backup_freq |-> d.backup_freq, h5_file |-> "None"]

Pickle(obj) == [kind |-> "pickle", obj |-> obj]

\* ------------------------------------------------------------- container
ShapeOf(q, s) ==
    CASE q \in {"positions", "velocities"} -> <<s.n_replicas, s.n_atoms, 3>>
      [] q \in {"spring_states", "spring_energies"} -> <<s.n_replicas, s.n_springs>>
      [] OTHER -> <<s.n_replicas>>

Zeros(shape) == [i \in 0..(shape[1] - 1) |-> 0]

\* create_dataset(name, shape=(..., 1), maxshape=(..., None)): one stage, zero filled
create_dataset(shape) == [shape |-> shape, slices |-> <<Zeros(shape)>>]

_setup_positions(s) == create_dataset(ShapeOf("positions", s))
_setup_velocities(s) == create_dataset(ShapeOf("velocities", s))
_setup_spring_states(s) == create_dataset(ShapeOf("spring_states", s))
_setup_spring_energies(s) == create_dataset(ShapeOf("spring_energies", s))
_setup_lambdas(s) == create_dataset(ShapeOf("lambdas", s))
\* energies made with two stages
_setup_energies_two_stages(s) ==
    [shape |-> ShapeOf("energies", s),
     slices |-> <<Zeros(ShapeOf("energies", s)), Zeros(ShapeOf("energies", s))>>]

_setup_energies(s) == create_dataset(ShapeOf("energies", s))

_setup_h5_datasets(s) ==
    [kind |-> "h5",
     ds |-> [q \in Quantities |->
               CASE q = "positions" -> _setup_positions(s)
                 [] q = "velocities" -> _setup_velocities(s)
                 [] q = "spring_states" -> _setup_spring_states(s)
                 [] q = "spring_energies" -> _setup_spring_energies(s)
                 [] q = "lambdas" -> _setup_lambdas(s)
                 [] OTHER -> _setup_energies(s)]]

\* h5py.File(path, 'a') on a path that does not exist: a container without datasets
EmptyH5 == [kind |-> "h5", ds |-> [q \in {} |-> 0]]

Array(shape, data) == [shape |-> shape, data |-> data]

\* h5py broadcasting of a value into a selection: each dimension equal, or 1
Broadcastable(src, dst) ==
    /\ Len(src) = Len(dst)
    /\ \A k \in 1..Len(src) : src[k] = 1 \/ src[k] = dst[k]

Broadcast(a, dst) ==
    IF a.shape[1] = dst[1] THEN a.data ELSE [i \in 0..(dst[1] - 1) |-> a.data[0]]

StageLen(dset) == Len(dset.slices)

\* dset[..., stage] = value
WriteErr(file, q, a, stage) ==
    IF q \notin DOMAIN file.ds THEN "KeyError"
    ELSE IF stage >= StageLen(file.ds[q]) THEN "ValueError"
    ELSE IF ~Broadcastable(a.shape, file.ds[q].shape) THEN "TypeError"
    ELSE "none"

\* a write that makes the other series of the container afresh
WriteSlice_resets_others(file, q, a, stage) ==
    [file EXCEPT !.ds =
        [x \in DOMAIN file.ds |->
           IF x = q
           THEN [file.ds[x] EXCEPT !.slices[stage + 1] = Broadcast(a, file.ds[q].shape)]
           ELSE create_dataset(file.ds[x].shape)]]

WriteSlice(file, q, a, stage) ==
    [file EXCEPT !.ds[q].slices[stage + 1] = Broadcast(a, file.ds[q].shape)]

\* dset[..., stage]
ReadErr(file, q, stage) ==
    IF q \notin DOMAIN file.ds THEN "KeyError"
    ELSE IF stage >= StageLen(file.ds[q]) THEN "ValueError"
    ELSE "none"

ReadSlice(file, q, stage) == Array(file.ds[q].shape, file.ds[q].slices[stage + 1])

\* ------------------------------------------------------------ the calls
\* the record of a call: its name, stage and argument, the exception it raised ("none"
\* when it returned) and how many handles it opened and closed; the arrays passed to a
\* call are kept when it returned
Call(op, stage, arg, err, opened, closed) ==
    [op |-> op, stage |-> stage,
     arg |-> IF err # "none" /\ arg.kind \in {"array", "states"} THEN NoArg ELSE arg,
     err |-> err, opened |-> opened, closed |-> closed]

\* a call is made by the running process, one at a time, within the budget
Idle == [pc |-> "idle", n |-> 0]

Running == ~crashed /\ phase = Idle /\ nops < MaxOps

Step(call) ==
    /\ last' = call
    /\ nops' = nops + 1
    /\ UNCHANGED <<phase, crashed, channel>>

ArrayArg(a) == [kind |-> "array", a |-> a]
StatesArg(states) == [kind |-> "states", s |-> states]
ModeArg(mode) == [kind |-> "mode", mode |-> mode]

\* the arrays a caller passes for quantity q: of the store's shape, replica i holding k + i
gen_array(q, k) ==
    Array(ShapeOf(q, store), [i \in 0..(store.n_replicas - 1) |-> (k + i) % (MaxVal + 1)])

\* one replica's part of an array: a block of the inner shape
Block(a, i) == [shape |-> Tail(a.shape), v |-> a.data[i]]

\* state.SystemState(positions, velocities, spring_states, lam, energy, spring_energies)
SystemState(positions, velocities, spring_states, lam, energy, spring_energies) ==
    [positions |-> positions, velocities |-> velocities, spring_states |-> spring_states,
     lam |-> lam, energy |-> energy, spring_energies |-> spring_energies]

\* the state of replica `index` in the functional tests, shifted by k so that fields differ
gen_state(index, k) ==
    LET b(shape, j) == [shape |-> shape, v |-> (index + k + j) % (MaxVal + 1)]
    IN  SystemState(b(<<store.n_atoms, 3>>, 0), b(<<store.n_atoms, 3>>, 1),
                    b(<<store.n_springs>>, 2), b(<<>>, 4), b(<<>>, 5),
                    b(<<store.n_springs>>, 3))

gen_states(k) == [n \in 1..store.n_replicas |-> gen_state(n - 1, k)]

\* np.array([s.<field> for s in states])
np_array(states, field) ==
    Array(<<Len(states)>> \o states[1][field].shape,
          [i \in 0..(Len(states) - 1) |-> states[i + 1][field].v])

\* self._h5_file[q][..., stage] = value
save_err(q, a, stage) ==
    IF store.h5_file = "None" THEN "TypeError" ELSE WriteErr(fs[h5_path], q, a, stage)

save_slice(op, q, a, stage) ==
    /\ Running
    /\ LET err == save_err(q, a, stage)
       IN  /\ fs' = IF err = "none"
                    THEN [fs EXCEPT ![h5_path] = WriteSlice(@, q, a, stage)]
                    ELSE fs
           /\ Step(Call(op, stage, ArrayArg(a), err, 0, 0))
    /\ UNCHANGED <<store, good>>

save_positions(positions, stage) == save_slice("save_positions", "positions", positions, stage)
save_velocities(velocities, stage) == save_slice("save_velocities", "velocities", velocities, stage)
save_spring_states(spring_states, stage) ==
    save_slice("save_spring_states", "spring_states", spring_states, stage)
save_spring_energies(spring_energies, stage) ==
    save_slice("save_spring_energies", "spring_energies", spring_energies, stage)
save_lambdas(lambdas, stage) == save_slice("save_lambdas", "lambdas", lambdas, stage)
save_energies(energies, stage) == save_slice("save_energies", "energies", energies, stage)

\* return self._h5_file[q][..., stage]
load_slice(q, stage) ==
    IF store.h5_file = "None" THEN [err |-> "TypeError"]
    ELSE IF ReadErr(fs[h5_path], q, stage) # "none"
         THEN [err |-> ReadErr(fs[h5_path], q, stage)]
         ELSE [err |-> "none", val |-> ReadSlice(fs[h5_path], q, stage)]

load_positions(stage) == load_slice("positions", stage)
load_velocities(stage) == load_slice("velocities", stage)
load_spring_states(stage) == load_slice("spring_states", stage)
load_spring_energies(stage) == load_slice("spring_energies", stage)
load_lambdas(stage) == load_slice("lambdas", stage)
load_energies(stage) == load_slice("energies", stage)

\* the six saves of save_states, in order; the first that raises ends the call
RECURSIVE save_each(_, _, _)
save_each(file, todo, stage) ==
    IF todo = <<>> THEN [file |-> file, err |-> "none"]
    ELSE LET q == todo[1][1]
             a == todo[1][2]
             err == WriteErr(file, q, a, stage)
         IN  IF err # "none" THEN [file |-> file, err |-> err]
             ELSE save_each(WriteSlice(file, q, a, stage), Tail(todo), stage)

save_states(states, stage) ==
    /\ Running
    /\ LET positions == np_array(states, "positions")
           velocities == np_array(states, "velocities")
           spring_states == np_array(states, "spring_states")
           spring_energies == np_array(states, "spring_energies")
           lambdas == np_array(states, "lam")
           energies == np_array(states, "energy")
           todo == << <<"positions", positions>>, <<"velocities", velocities>>,
                      <<"spring_states", spring_states>>,
                      <<"spring_energies", spring_energies>>,
                      <<"lambdas", lambdas>>, <<"energies", energies>> >>
       IN  IF store.h5_file = "None"
           THEN /\ fs' = fs
                /\ Step(Call("save_states", stage, StatesArg(states), "TypeError", 0, 0))
           ELSE LET r == save_each(fs[h5_path], todo, stage)
                IN  /\ fs' = [fs EXCEPT ![h5_path] = r.file]
                    /\ Step(Call("save_states", stage, StatesArg(states), r.err, 0, 0))
    /\ UNCHANGED <<store, good>>

\* load_states with lambdas and energies passed to SystemState in each other's place
load_states_swapped(stage) ==
    LET positions == load_positions(stage)
        velocities == load_velocities(stage)
        spring_states == load_spring_states(stage)
        spring_energies == load_spring_energies(stage)
        lambdas == load_lambdas(stage)
        energies == load_energies(stage)
        loads == <<positions, velocities, spring_states, spring_energies, lambdas, energies>>
    IN  IF \E n \in 1..6 : loads[n].err # "none"
        THEN [err |-> "Error"]
        ELSE [err |-> "none",
              val |-> [n \in 1..store.n_replicas |->
                         SystemState(Block(positions.val, n - 1), Block(velocities.val, n - 1),
                                     Block(spring_states.val, n - 1), Block(energies.val, n - 1),
                                     Block(lambdas.val, n - 1),
                                     Block(spring_energies.val, n - 1))]]

load_states(stage) ==
    LET positions == load_positions(stage)
        velocities == load_velocities(stage)
        spring_states == load_spring_states(stage)
        spring_energies == load_spring_energies(stage)
        lambdas == load_lambdas(stage)
        energies == load_energies(stage)
        loads == <<positions, velocities, spring_states, spring_energies, lambdas, energies>>
        failed == {n \in 1..6 : loads[n].err # "none"}
    IN  IF failed # {}
        THEN [err |-> loads[CHOOSE n \in failed : \A m \in failed : n <= m].err]
        ELSE IF \E a \in {loads[n].val : n \in 1..6} : store.n_replicas > a.shape[1]
        THEN [err |-> "IndexError"]
        ELSE [err |-> "none",
              val |-> [n \in 1..store.n_replicas |->
                         SystemState(Block(positions.val, n - 1), Block(velocities.val, n - 1),
                                     Block(spring_states.val, n - 1), Block(lambdas.val, n - 1),
                                     Block(energies.val, n - 1),
                                     Block(spring_energies.val, n - 1))]]

\* ----------------------------------------------------- open, close, pickle
\* initialize('new') without the check that Data/ exists: the container is made afresh
initialize_new_unchecked ==
    /\ fs' = [fs EXCEPT ![data_dir] = Dir, ![backup_dir] = Dir,
                        ![h5_path] = _setup_h5_datasets(store)]
    /\ store' = [store EXCEPT !.h5_file = "w-"]
    /\ Step(Call("initialize", 0, ModeArg("new"), "none", 1, 0))

initialize_new ==
    IF exists(data_dir)
    THEN /\ UNCHANGED <<store, fs>>
         /\ Step(Call("initialize", 0, ModeArg("new"), "RuntimeError", 0, 0))
    ELSE /\ fs' = [fs EXCEPT ![data_dir] = Dir, ![backup_dir] = Dir,
                             ![h5_path] = _setup_h5_datasets(store)]
         /\ store' = [store EXCEPT !.h5_file = "w-"]
         /\ Step(Call("initialize", 0, ModeArg("new"), "none", 1, 0))

\* h5py.File(path, 'a'): opens the file, makes it when Data/ has none, and fails
\* without Data/
initialize_existing ==
    IF ~exists(data_dir)
    THEN /\ UNCHANGED <<store, fs>>
         /\ Step(Call("initialize", 0, ModeArg("existing"), "IOError", 0, 0))
    ELSE /\ fs' = IF exists(h5_path) THEN fs ELSE [fs EXCEPT ![h5_path] = EmptyH5]
         /\ store' = [store EXCEPT !.h5_file = "a"]
         /\ Step(Call("initialize", 0, ModeArg("existing"), "none", 1, 0))

initialize(mode) ==
    /\ Running
    /\ IF mode = "new" THEN initialize_new
       ELSE IF mode = "existing" THEN initialize_existing
       ELSE /\ UNCHANGED <<store, fs>>
            /\ Step(Call("initialize", 0, ModeArg(mode), "RuntimeError", 0, 0))
    /\ UNCHANGED good

\* close without the test of the handle
close_unguarded ==
    /\ Running
    /\ IF store.h5_file # "None"
       THEN /\ store' = [store EXCEPT !.h5_file = "None"]
            /\ Step(Call("close", 0, NoArg, "none", 0, 1))
       ELSE /\ store' = store
            /\ Step(Call("close", 0, NoArg, "AttributeError", 0, 0))
    /\ UNCHANGED <<fs, good>>

close ==
    /\ Running
    /\ IF store.h5_file # "None"
       THEN /\ store' = [store EXCEPT !.h5_file = "None"]
            /\ Step(Call("close", 0, NoArg, "none", 0, 1))
       ELSE /\ store' = store
            /\ Step(Call("close", 0, NoArg, "none", 0, 0))
    /\ UNCHANGED <<fs, good>>

\* with open(path, 'w') as f: pickle.dump(obj, f)
dump(op, path, obj, arg) ==
    /\ Running
    /\ IF exists(data_dir)
       THEN /\ fs' = [fs EXCEPT ![path] = Pickle(obj)]
            /\ Step(Call(op, 0, arg, "none", 0, 0))
       ELSE /\ fs' = fs
            /\ Step(Call(op, 0, arg, "IOError", 0, 0))
    /\ UNCHANGED <<store, good>>

save_data_store == dump("save_data_store", data_store_path, getstate(store), NoArg)

\* replaces the object the program holds; the one it held goes out of scope (__del__)
load_data_store ==
    /\ Running
    /\ IF exists(data_store_path)
       THEN /\ store' = setstate(fs[data_store_path].obj)
            /\ Step(Call("load_data_store", 0, NoArg, "none", 0,
                         IF store.h5_file # "None" THEN 1 ELSE 0))
       ELSE /\ store' = store
            /\ Step(Call("load_data_store", 0, NoArg, "IOError", 0, 0))
    /\ UNCHANGED <<fs, good>>

\* DataStore(n_atoms, n_springs, n_replicas, backup_freq) replaces the object held
construct(dims, backup_freq) ==
    /\ Running
    /\ store' = DataStore(dims.n_atoms, dims.n_springs, dims.n_replicas, backup_freq)
    /\ Step(Call("__init__", 0, NoArg, "none", 0, IF store.h5_file # "None" THEN 1 ELSE 0))
    /\ UNCHANGED <<fs, good>>

\* an MPICommunicator object is its __dict__
MPICommunicator(n_atoms, n_replicas, n_springs) ==
    [k \in {"_n_atoms", "_n_replicas", "_n_springs", "_mpi_comm"} |->
       CASE k = "_n_atoms" -> n_atoms
         [] k = "_n_replicas" -> n_replicas
         [] k = "_n_springs" -> n_springs
         [] OTHER -> 0]

\* MPICommunicator.__getstate__: every field but _mpi_comm
comm_getstate(c) == [k \in DOMAIN c \ {"_mpi_comm"} |-> c[k]]

\* MPICommunicator.__setstate__ without the assignment of _mpi_comm
comm_setstate_no_reset(d) == d

\* MPICommunicator.__setstate__: the pickled fields, and _mpi_comm = None (0)
comm_setstate(d) ==
    [k \in DOMAIN d \cup {"_mpi_comm"} |-> IF k = "_mpi_comm" THEN 0 ELSE d[k]]

\* MPICommunicator.initialize: _mpi_comm = COMM_WORLD (1), _my_rank = its Get_rank()
comm_initialize(c, my_rank) ==
    [k \in DOMAIN c \cup {"_my_rank"} |->
       CASE k = "_mpi_comm" -> 1
         [] k = "_my_rank" -> my_rank
         [] OTHER -> c[k]]

\* the property rank: self._my_rank, an AttributeError while the attribute is not set
rank(c) ==
    IF "_my_rank" \in DOMAIN c
    THEN [err |-> "none", val |-> c["_my_rank"]]
    ELSE [err |-> "AttributeError", val |-> 0]

\* the communicators a caller saves: as constructed, with _mpi_comm set by hand (2
\* stands for any value that is neither None, 0, nor the live handle, 1), or initialized
\* on one of the ranks
CommInputs ==
    LET c == MPICommunicator(store.n_atoms, store.n_replicas, store.n_springs)
    IN  {c, [c EXCEPT !["_mpi_comm"] = 2]}
          \cup {comm_initialize(c, r) : r \in 0..(store.n_replicas - 1)}

Runners == 1..MaxRunner

CommArg(comm) == [kind |-> "comm", c |-> comm]
RunnerArg(runner) == [kind |-> "runner", r |-> runner]

save_communicator(comm) ==
    dump("save_communicator", communicator_path, comm_getstate(comm), CommArg(comm))

\* pickle.load of communicator.dat, as an object or the IOError of a missing file
load_communicator ==
    IF exists(communicator_path)
    THEN [err |-> "none", val |-> comm_setstate(fs[communicator_path].obj)]
    ELSE [err |-> "IOError", val |-> 0]

\* the runner written to communicator.dat
save_remd_runner_to_communicator_path(runner) ==
    dump("save_remd_runner", communicator_path, runner, RunnerArg(runner))

save_remd_runner(runner) ==
    dump("save_remd_runner", remd_runner_path, runner, RunnerArg(runner))

\* pickle.load of remd_runner.dat
load_remd_runner ==
    IF exists(remd_runner_path)
    THEN [err |-> "none", val |-> fs[remd_runner_path].obj]
    ELSE [err |-> "IOError", val |-> 0]

\* ------------------------------------------------------------------ backup
_make_backup_path(path) == backup_dir \o <<path[Len(path)]>>

\* _backup that opens the copy for writing before it looks for the file
_backup_creates_empty(f, path) ==
    IF f[path] # Absent THEN [f EXCEPT ![_make_backup_path(path)] = f[path]]
    ELSE [f EXCEPT ![_make_backup_path(path)] = Truncated]

\* _backup with shutil.move in the place of shutil.copy
_backup_moves(f, path) ==
    IF f[path] # Absent
    THEN [f EXCEPT ![_make_backup_path(path)] = f[path], ![path] = Absent]
    ELSE f

\* if os.path.exists(path): shutil.copy(path, backup_path)
_backup(f, path) ==
    IF f[path] # Absent THEN [f EXCEPT ![_make_backup_path(path)] = f[path]] ELSE f

\* the files of Data/, as a due backup finds them
Snapshot(f) == [p \in LiveFiles |-> f[p]]

Due_always(stage) == TRUE

\* if not stage % self._backup_freq
Due(stage) == stage % store.backup_freq = 0

reopen_missing(s) == [s EXCEPT !.h5_file = "None"]

\* self._h5_file = h5py.File(self.h5_path, 'a')
reopen(s) == [s EXCEPT !.h5_file = "a"]

backup(stage) ==
    /\ Running
    /\ IF ~Due(stage)
       THEN /\ UNCHANGED <<store, fs, good>>
            /\ Step(Call("backup", stage, NoArg, "none", 0, 0))
       ELSE LET f1 == _backup(fs, communicator_path)
                f2 == _backup(f1, data_store_path)
                f3 == _backup(f2, remd_runner_path)
            IN  IF store.h5_file = "None"
                THEN \* None.close() raises after the sidecars were copied
                     /\ fs' = f3
                     /\ UNCHANGED <<store, good>>
                     /\ Step(Call("backup", stage, NoArg, "AttributeError", 0, 0))
                ELSE /\ fs' = _backup(f3, h5_path)
                     /\ store' = reopen(store)
                     /\ good' = Snapshot(fs)
                     /\ Step(Call("backup", stage, NoArg, "none", 1, 1))

\* ------------------------------------------------------------ the channel
\* one process per replica; the process of rank 0 is the master
Ranks == 0..(NReplicas - 1)

\* the objects that pass through the channel
None == [t |-> "None"]
Float(x) == [t |-> "float", v |-> x]
State(x) == [t |-> "SystemState", v |-> x]
List(seq) == [t |-> "list", v |-> seq]

\* np.array(rows)
ndarray(rows) == [t |-> "ndarray", v |-> [i \in 1..Len(rows.v) |-> rows.v[i].v]]

\* self._my_rank == 0
is_master(c) == c["_my_rank"] = 0

\* the object rank q passed to its n-th collective call, None while it has not made it
contribution(q, n) == IF Len(sent[q]) >= n THEN sent[q][n] ELSE None

\* MPI hands the data over when the sender has called: a rank that sends may return
\* before the receivers call, a rank that receives returns after its senders called
scatter_ready(r, n) == r = 0 \/ Len(sent[0]) >= n

\* _mpi_comm.scatter(sendobj, root=0) on rank r: element r of the root's sequence
scatter(r, n) ==
    IF contribution(0, n) = None THEN None ELSE contribution(0, n).v[r + 1]

\* the root returns from a gather as soon as one rank has called
gather_ready_first_call(r, n) == r # 0 \/ \E q \in Ranks : Len(sent[q]) >= n

gather_ready(r, n) == r # 0 \/ \A q \in Ranks : Len(sent[q]) >= n

\* _mpi_comm.gather(sendobj, root=0) on rank r: on the root the objects of all ranks
\* in rank order, None elsewhere
gather(r, n) ==
    IF r = 0 THEN List([i \in 1..NReplicas |-> contribution(i - 1, n)]) ELSE None

\* a broadcast that returns on the root after the others, and on the others after the root
bcast_ready_after_all(r, n) ==
    IF r = 0 THEN \A q \in Ranks \ {0} : Len(got[q]) >= n ELSE Len(got[0]) >= n

bcast_ready(r, n) == r = 0 \/ Len(sent[0]) >= n

\* _mpi_comm.bcast(obj, root=0) on rank r: the root's object
bcast(r, n) == contribution(0, n)

\* the transfer methods: what the n-th collective call returns to the process of rank r
broadcast_lambdas_to_slaves(r, n) == None

\* recieve_lambda_from_master without its return statement
recieve_lambda_from_master_no_return(r, n) == None

recieve_lambda_from_master(r, n) == scatter(r, n)

broadcast_states_to_slaves(r, n) == scatter(r, n)

\* recieve_state_from_master that scatters and returns the state of the next rank
recieve_state_from_master_next_rank(r, n) == scatter((r + 1) % NReplicas, n)

recieve_state_from_master(r, n) == scatter(r, n)

\* gather_states_from_slaves that returns the states in reverse rank order
gather_states_from_slaves_reversed(r, n) ==
    List([i \in 1..NReplicas |-> gather(r, n).v[NReplicas + 1 - i]])

gather_states_from_slaves(r, n) == gather(r, n)

send_state_to_master(r, n) == None

broadcast_states_for_energy_calc_to_slaves(r, n) == None

\* recieve_states_for_energy_calc_from_master that scatters instead of broadcasting
recieve_states_for_energy_calc_from_master_scatter(r, n) == scatter(r, n)

recieve_states_for_energy_calc_from_master(r, n) == bcast(r, n)

gather_energies_from_slaves(r, n) == ndarray(gather(r, n))

send_energies_to_master(r, n) == gather(r, n)

\* ------------------------------------------------- the program of a process
\* every process makes the same calls in the same order: the scatter of the lambdas,
\* then for each stage the scatter of the states, the gather of the states, the
\* broadcast of all states and the gather of the energies
TransferSteps == <<"states", "gather_states", "states_for_energy_calc", "gather_energies">>

ProgramLen == 1 + 4 * (MaxStage + 1)

StepAt(n) == IF n = 1 THEN "lambdas" ELSE TransferSteps[((n - 2) % 4) + 1]

\* the state a process sends back after running the state it was given
run(state) == State((state.v + 1) % (MaxVal + 1))

\* the energies of all states under the parameters of the replica of rank r
energy_row(r, states) ==
    List([j \in 1..Len(states.v) |-> (states.v[j].v + r) % (MaxVal + 1)])

lambdas_arg(k) == List([i \in 1..NReplicas |-> Float((k + i - 1) % (MaxVal + 1))])
states_arg(k) == List([i \in 1..NReplicas |-> State((k + i - 1) % (MaxVal + 1))])

\* the arguments the process of rank r may pass to its n-th collective call
Args(r, n) ==
    CASE StepAt(n) = "lambdas" ->
           IF is_master(comms[r]) THEN {lambdas_arg(k) : k \in Val} ELSE {None}
      [] StepAt(n) = "states" ->
           IF is_master(comms[r]) THEN {states_arg(k) : k \in Val} ELSE {None}
      [] StepAt(n) = "gather_states" -> {run(got[r][n - 1])}
      [] StepAt(n) = "states_for_energy_calc" ->
           IF is_master(comms[r]) THEN {got[r][n - 1]} ELSE {None}
      [] OTHER ->
           {energy_row(r, IF is_master(comms[r]) THEN got[r][n - 2] ELSE got[r][n - 1])}

\* the collective of the n-th call may return on rank r
Ready(r, n) ==
    CASE StepAt(n) \in {"lambdas", "states"} -> scatter_ready(r, n)
      [] StepAt(n) \in {"gather_states", "gather_energies"} -> gather_ready(r, n)
      [] OTHER -> bcast_ready(r, n)

\* the master calls the methods for the master, the others their companions
Return(r, n) ==
    LET master == is_master(comms[r])
    IN  CASE StepAt(n) = "lambdas" ->
               IF master THEN broadcast_lambdas_to_slaves(r, n)
               ELSE recieve_lambda_from_master(r, n)
          [] StepAt(n) = "states" ->
               IF master THEN broadcast_states_to_slaves(r, n)
               ELSE recieve_state_from_master(r, n)
          [] StepAt(n) = "gather_states" ->
               IF master THEN gather_states_from_slaves(r, n)
               ELSE send_state_to_master(r, n)
          [] StepAt(n) = "states_for_energy_calc" ->
               IF master THEN broadcast_states_for_energy_calc_to_slaves(r, n)
               ELSE recieve_states_for_energy_calc_from_master(r, n)
          [] OTHER ->
               IF master THEN gather_energies_from_slaves(r, n)
               ELSE send_energies_to_master(r, n)

\* self._mpi_comm.<collective>(...): None, or anything but the live handle, has no such
\* method
transfer_err(c) == IF c["_mpi_comm"] = 1 THEN "none" ELSE "AttributeError"

storeVars == <<store, fs, last, nops, phase, crashed, good>>

\* comm.initialize() in the process of rank r
initialize_rank(r) ==
    /\ raised[r] = "none"
    /\ comms[r]["_mpi_comm"] = 0
    /\ comms' = [comms EXCEPT ![r] = comm_initialize(@, r)]
    /\ UNCHANGED <<sent, got, raised, storeVars>>

\* a transfer method called before initialize: the exception ends the program of the
\* process, and nothing reaches the other processes
transfer_uninitialized(r) ==
    /\ raised[r] = "none"
    /\ transfer_err(comms[r]) # "none"
    /\ raised' = [raised EXCEPT ![r] = transfer_err(comms[r])]
    /\ UNCHANGED <<comms, sent, got, storeVars>>

\* the process of rank r makes its next collective call
issue(r) ==
    /\ raised[r] = "none"
    /\ transfer_err(comms[r]) = "none"
    /\ Len(sent[r]) = Len(got[r])
    /\ Len(sent[r]) < ProgramLen
    /\ \E arg \in Args(r, Len(sent[r]) + 1) : sent' = [sent EXCEPT ![r] = Append(@, arg)]
    /\ UNCHANGED <<comms, got, raised, storeVars>>

\* the call of the process of rank r returns
complete(r) ==
    /\ Len(sent[r]) = Len(got[r]) + 1
    /\ Ready(r, Len(sent[r]))
    /\ got' = [got EXCEPT ![r] = Append(@, Return(r, Len(sent[r])))]
    /\ UNCHANGED <<comms, sent, raised, storeVars>>

\* the processes as mpirun starts them: each has built its communicator
ChannelInit ==
    /\ comms = [r \in Ranks |-> MPICommunicator(NAtoms, NReplicas, NSprings)]
    /\ sent = [r \in Ranks |-> <<>>]
    /\ got = [r \in Ranks |-> <<>>]
    /\ raised = [r \in Ranks |-> "none"]

\* ----------------------------------------------------------- specification
Init ==
    /\ \E f \in 1..MaxFreq :
         store = DataStore(NAtoms, NSprings, NReplicas, f)
    /\ \E made \in BOOLEAN :
         fs = [p \in Paths |-> IF made /\ p \in {data_dir, backup_dir} THEN Dir ELSE Absent]
    /\ last = Call("__init__", 0, NoArg, "none", 0, 0)
    /\ nops = 0
    /\ phase = Idle
    /\ crashed = FALSE
    /\ good = NoPoint
    /\ ChannelInit

Calls ==
    \/ \E mode \in Modes : initialize(mode)
    \/ close
    \/ save_data_store
    \/ load_data_store
    \/ \E dims \in DimsSet, f \in 1..MaxFreq : construct(dims, f)
    \/ \E comm \in CommInputs : save_communicator(comm)
    \/ \E runner \in Runners : save_remd_runner(runner)
    \/ \E k \in Val, stage \in Stages : save_positions(gen_array("positions", k), stage)
    \/ \E k \in Val, stage \in Stages : save_velocities(gen_array("velocities", k), stage)
    \/ \E k \in Val, stage \in Stages : save_spring_states(gen_array("spring_states", k), stage)
    \/ \E k \in Val, stage \in Stages :
         save_spring_energies(gen_array("spring_energies", k), stage)
    \/ \E k \in Val, stage \in Stages : save_lambdas(gen_array("lambdas", k), stage)
    \/ \E k \in Val, stage \in Stages : save_energies(gen_array("energies", k), stage)
    \/ \E k \in Val, stage \in Stages : save_states(gen_states(k), stage)

Next == Calls \/ \E stage \in Stages : backup(stage)

Spec == Init /\ [][Next]_vars

\* ------------------------------------------- backup, one step at a time
\* the paths a due backup copies, in order
BackupOrder == <<communicator_path, data_store_path, remd_runner_path, h5_path>>

\* where backup goes after the copy of BackupOrder[n]: the next sidecar, the close of the
\* container after the last sidecar, the reopening after the container
After(n) ==
    IF n < 3 THEN [pc |-> "copy", n |-> n + 1]
    ELSE IF n = 3 THEN [pc |-> "close", n |-> 0]
    ELSE [pc |-> "reopen", n |-> 0]

backup_enter(stage) ==
    /\ Running
    /\ IF ~Due(stage)
       THEN /\ Step(Call("backup", stage, NoArg, "none", 0, 0))
       ELSE /\ last' = Call("backup", stage, NoArg, "running", 0, 0)
            /\ nops' = nops + 1
            /\ phase' = [pc |-> "copy", n |-> 1]
            /\ UNCHANGED <<crashed, channel>>
    /\ UNCHANGED <<store, fs, good>>

\* _backup(path): a missing file is skipped; shutil.copy opens the copy for writing,
\* which empties it
copy_open ==
    /\ ~crashed /\ phase.pc = "copy"
    /\ IF exists(BackupOrder[phase.n])
       THEN /\ fs' = [fs EXCEPT ![_make_backup_path(BackupOrder[phase.n])] = Truncated]
            /\ phase' = [pc |-> "mid", n |-> phase.n]
       ELSE /\ fs' = fs
            /\ phase' = After(phase.n)
    /\ UNCHANGED <<store, last, nops, crashed, good, channel>>

\* shutil.copy has written the whole file
copy_done ==
    /\ ~crashed /\ phase.pc = "mid"
    /\ fs' = _backup(fs, BackupOrder[phase.n])
    /\ phase' = After(phase.n)
    /\ UNCHANGED <<store, last, nops, crashed, good, channel>>

\* self._h5_file.close()
close_h5 ==
    /\ ~crashed /\ phase.pc = "close"
    /\ IF store.h5_file = "None"
       THEN /\ store' = store
            /\ last' = Call("backup", last.stage, NoArg, "AttributeError", 0, 0)
            /\ phase' = Idle
       ELSE /\ store' = [store EXCEPT !.h5_file = "closed"]
            /\ last' = last
            /\ phase' = [pc |-> "copy", n |-> 4]
    /\ UNCHANGED <<fs, nops, crashed, good, channel>>

reopen_h5 ==
    /\ ~crashed /\ phase.pc = "reopen"
    /\ store' = reopen(store)
    /\ good' = Snapshot(fs)
    /\ last' = Call("backup", last.stage, NoArg, "none", 1, 1)
    /\ phase' = Idle
    /\ UNCHANGED <<fs, nops, crashed, channel>>

\* the process stops, between any two steps
crash ==
    /\ ~crashed
    /\ crashed' = TRUE
    /\ UNCHANGED <<store, fs, last, nops, phase, good, channel>>

NextCrash ==
    \/ Calls
    \/ \E stage \in Stages : backup_enter(stage)
    \/ copy_open
    \/ copy_done
    \/ close_h5
    \/ reopen_h5
    \/ crash

SpecCrash == Init /\ [][NextCrash]_vars

\* ------------------------------------------------- the processes of the job
InitComm ==
    /\ store = DataStore(NAtoms, NSprings, NReplicas, 1)
    /\ fs = [p \in Paths |-> Absent]
    /\ last = Call("__init__", 0, NoArg, "none", 0, 0)
    /\ nops = 0
    /\ phase = Idle
    /\ crashed = FALSE
    /\ good = NoPoint
    /\ ChannelInit

NextComm ==
    \/ \E r \in Ranks : initialize_rank(r)
    \/ \E r \in Ranks : transfer_uninitialized(r)
    \/ \E r \in Ranks : issue(r)
    \/ \E r \in Ranks : complete(r)

SpecComm == InitComm /\ [][NextComm]_vars

\* every process goes on with its program, and a call that may return does return
SpecCommFair ==
    /\ SpecComm
    /\ \A r \in Ranks : WF_vars(initialize_rank(r) \/ issue(r) \/ complete(r))

\* ------------------------------------------------------------ properties
SaveOps ==
    {"save_positions", "save_velocities", "save_spring_states", "save_spring_energies",
     "save_lambdas", "save_energies"}

QuantityOf(op) ==
    CASE op = "save_positions" -> "positions"
      [] op = "save_velocities" -> "velocities"
      [] op = "save_spring_states" -> "spring_states"
      [] op = "save_spring_energies" -> "spring_energies"
      [] op = "save_lambdas" -> "lambdas"
      [] OTHER -> "energies"

\* the container holds the six series, with the dimensions of the store's parameters
SeriesMatch ==
    /\ exists(h5_path)
    /\ \A q \in Quantities :
         /\ q \in DOMAIN fs[h5_path].ds
         /\ fs[h5_path].ds[q].shape = ShapeOf(q, store)

\* the store is open on a container made for its parameters
Initialized == store.h5_file # "None" /\ SeriesMatch

\* C1: after save_Q(v, s) on an initialized store, for any stage s >= 0, load_Q(s)
\* returns v.
C1_SliceRoundTrip ==
    (last.op \in SaveOps /\ Initialized) =>
        /\ last.err = "none"
        /\ load_slice(QuantityOf(last.op), last.stage) = [err |-> "none", val |-> last.arg.a]

\* C2: after save_states(states, s) has returned on an initialized store, load_states(s)
\* returns one state per replica, and state i has the six fields of states[i].
C2_StatesRoundTrip ==
    (last.op = "save_states" /\ last.err = "none" /\ Initialized) =>
        load_states(last.stage) = [err |-> "none", val |-> last.arg.s]

\* save_states has stored states whose replicas differ and whose lambda and energy differ
C2_Witness ==
    /\ last.op = "save_states" /\ last.err = "none" /\ Initialized
    /\ Len(last.arg.s) = store.n_replicas
    /\ store.n_replicas >= 2
    /\ last.arg.s[1] # last.arg.s[2]
    /\ last.arg.s[2].lam.v # last.arg.s[2].energy.v
    /\ last.arg.s[2].positions.v # last.arg.s[2].velocities.v
    /\ last.arg.s[2].spring_states.v # last.arg.s[2].spring_energies.v

\* C3: initialize('new') without Data/ makes Data/, Data/Backup/ and results.h5 and
\* leaves the store with an open handle; with Data/ present it raises the configuration
\* error, changes no file and leaves the store's handle as it was.
C3_InitializeNew ==
    [][initialize("new") =>
         IF exists(data_dir)
         THEN /\ last'.err = "RuntimeError"
              /\ fs' = fs
              /\ store' = store
         ELSE /\ last'.err = "none"
              /\ fs'[data_dir] = Dir
              /\ fs'[backup_dir] = Dir
              /\ fs'[h5_path] # Absent
              /\ store'.h5_file # "None"]_vars

\* a second initialize('new') on a store that the first one opened was refused
C3_Witness ==
    /\ last.op = "initialize" /\ last.arg.mode = "new" /\ last.err = "RuntimeError"
    /\ store.h5_file = "w-"
    /\ exists(h5_path)

\* C4: on an open store, backup(stage) copies every sidecar file that exists and the
\* container into Data/Backup/ when stage mod backup_freq = 0; otherwise, on any store,
\* it changes no file and neither closes nor opens the container.
C4_BackupIffDue ==
    [][\A stage \in Stages :
         backup(stage) =>
           IF stage % store.backup_freq = 0
           THEN store.h5_file # "None" =>
                  /\ last'.err = "none"
                  /\ \A p \in LiveFiles :
                       /\ exists(p) => fs'[_make_backup_path(p)] = fs[p]
                       /\ ~exists(p) => fs'[_make_backup_path(p)] = fs[_make_backup_path(p)]
                  /\ fs'[_make_backup_path(h5_path)] # Absent
           ELSE /\ fs' = fs
                /\ store' = store
                /\ last'.err = "none" /\ last'.opened = 0 /\ last'.closed = 0]_vars

\* a due backup has copied a sidecar file and the container
C4_Witness ==
    /\ last.op = "backup" /\ last.err = "none"
    /\ last.stage % store.backup_freq = 0
    /\ \E p \in Sidecars : exists(p) /\ fs[_make_backup_path(p)] = fs[p]
    /\ fs[_make_backup_path(h5_path)] = fs[h5_path]

\* C5: a backup(stage) call that returns on an open store, due or not, leaves the store
\* with an open handle for reading and writing and the container's data as it was: every
\* load and every save has the outcome it would have had before the backup, and the
\* stages the container holds can be read and written.
C5_UsableAfterBackup ==
    [][\A stage \in Stages :
         (backup(stage) /\ store.h5_file # "None") =>
           /\ last'.err = "none"
           /\ store'.h5_file \in {"a", "w-"}
           /\ fs'[h5_path] = fs[h5_path]
           /\ \A q \in Quantities, s \in Stages :
                /\ load_slice(q, s)' = load_slice(q, s)
                /\ \A k \in Val :
                     save_err(q, gen_array(q, k), s)' = save_err(q, gen_array(q, k), s)
           /\ SeriesMatch =>
                \A q \in Quantities, k \in Val :
                  /\ load_slice(q, 0)'.err = "none"
                  /\ save_err(q, gen_array(q, k), 0)' = "none"]_vars

\* a due backup has closed, copied and reopened a container that holds saved data
C5_Witness ==
    /\ last.op = "backup" /\ last.err = "none" /\ last.opened = 1 /\ last.closed = 1
    /\ Initialized
    /\ store.h5_file = "a"
    /\ \E q \in Quantities : load_slice(q, 0).val.data # Zeros(ShapeOf(q, store))

\* C7: initialize('safe') succeeds when a backup exists and opens the backup copy of
\* the container read-only.
C7_SafeOpensBackup ==
    (/\ last.op = "initialize" /\ last.arg.mode = "safe"
     /\ exists(_make_backup_path(h5_path))) =>
        /\ last.err = "none"
        /\ store.h5_file = "r"

\* C8: save_Q(value, stage) with stage at or past the series' stage-axis length
\* succeeds on an initialized store: the series grows past stage and the slice is
\* written.
C8_SaveGrows ==
    (last.op \in SaveOps /\ Initialized) =>
        /\ last.err = "none"
        /\ StageLen(fs[h5_path].ds[QuantityOf(last.op)]) > last.stage
        /\ load_slice(QuantityOf(last.op), last.stage).val = last.arg.a

\* the six series exist, have one length along the stage axis, and that length is >= 1
SeriesAligned(file) ==
    /\ file # Absent
    /\ \A q \in Quantities : q \in DOMAIN file.ds /\ StageLen(file.ds[q]) >= 1
    /\ \A q1, q2 \in Quantities : StageLen(file.ds[q1]) = StageLen(file.ds[q2])

\* C9: from a successful initialize('new') on, under every call, the six series of the
\* container have the same stage-axis length, at least 1, and it never gets smaller.
C9_SeriesAligned ==
    [][/\ (initialize("new") /\ last'.err = "none") => SeriesAligned(fs'[h5_path])
       /\ SeriesAligned(fs[h5_path]) =>
            /\ SeriesAligned(fs'[h5_path])
            /\ \A q \in Quantities :
                 StageLen(fs'[h5_path].ds[q]) >= StageLen(fs[h5_path].ds[q])]_vars

\* a container made by initialize('new') has been written, backed up and reopened
C9_Witness ==
    /\ last.op = "backup" /\ last.err = "none" /\ last.opened = 1
    /\ store.h5_file = "a"
    /\ SeriesAligned(fs[h5_path])
    /\ \E q \in Quantities : fs[h5_path].ds[q].slices[1] # Zeros(fs[h5_path].ds[q].shape)

\* C10: initialize('existing') returns an open store only if the series of the container
\* have the dimensions of the store's atom, replica and spring counts.
C10_ExistingChecksDims ==
    (/\ last.op = "initialize" /\ last.arg.mode = "existing" /\ last.err = "none"
     /\ \A q \in Quantities : q \in DOMAIN fs[h5_path].ds) =>
        SeriesMatch

\* the files of Data/Backup/, under the names of the files of Data/
BackupView == [p \in LiveFiles |-> fs[_make_backup_path(p)]]

\* C6: when the process stops at any point after a backup has completed, Data/Backup/
\* holds a whole checkpoint: no file cut short, and all files those of one backup
\* point (the last backup that completed, or the one that was running).
C6_CrashLeavesCheckpoint ==
    (crashed /\ good # NoPoint) =>
        \/ BackupView = good
        \/ phase # Idle /\ BackupView = Snapshot(fs)

\* ------------------------------------------------- properties of the sidecars
\* C11: a store returned by load_data_store and a communicator returned by
\* load_communicator have their handle (_h5_file, _mpi_comm) set to None, whatever
\* the handle was on the object that was saved.
C11_LoadedHandleUnset ==
    /\ (last.op = "load_data_store" /\ last.err = "none") => store.h5_file = "None"
    /\ exists(data_store_path) => setstate(fs[data_store_path].obj).h5_file = "None"
    /\ exists(communicator_path) =>
          /\ "_mpi_comm" \in DOMAIN load_communicator.val
          /\ load_communicator.val["_mpi_comm"] = 0

\* a communicator whose handle was set by hand has just been saved, next to a store
\* saved while it was open on the container it made, and both load
C11_Witness ==
    /\ last.op = "save_communicator" /\ last.err = "none"
    /\ last.arg.c["_mpi_comm"] = 2
    /\ load_communicator.err = "none"
    /\ exists(data_store_path)
    /\ store.h5_file = "w-"

\* C12: for a communicator that was initialized and then saved, the communicator
\* returned by load_communicator carries neither the handle nor the rank: reading
\* its rank fails until initialize is called again.
C12_RankNotRestored ==
    (/\ last.op = "save_communicator" /\ last.err = "none"
     /\ "_my_rank" \in DOMAIN last.arg.c) =>
        /\ load_communicator.err = "none"
        /\ load_communicator.val["_mpi_comm"] = 0
        /\ rank(load_communicator.val).err = "AttributeError"

\* what the sidecars hold after a save that returned
SidecarsRoundTrip ==
    /\ (last.op = "save_data_store" /\ last.err = "none") =>
          /\ exists(data_store_path)
          /\ getstate(setstate(fs[data_store_path].obj)) = getstate(store)
    /\ (last.op = "save_communicator" /\ last.err = "none") =>
          /\ load_communicator.err = "none"
          /\ \A k \in {"_n_atoms", "_n_replicas", "_n_springs"} :
               load_communicator.val[k] = last.arg.c[k]
    /\ (last.op = "save_remd_runner" /\ last.err = "none") =>
          load_remd_runner = [err |-> "none", val |-> last.arg.r]

SaverOf(path) ==
    CASE path = data_store_path -> "save_data_store"
      [] path = communicator_path -> "save_communicator"
      [] OTHER -> "save_remd_runner"

\* C13: a load after a save returns the configuration that was saved (the counts and
\* backup frequency of a store, the counts of a communicator, the runner itself), and
\* a sidecar changes only by the save of its kind, so that a load returns the object
\* saved last.
C13_SidecarsRoundTrip ==
    [][/\ SidecarsRoundTrip'
       /\ \A path \in Sidecars :
            fs'[path] # fs[path] => (last'.op = SaverOf(path) /\ last'.err = "none")]_vars

\* the three sidecars have been saved, the runner last, and each loads
C13_Witness ==
    /\ last.op = "save_remd_runner" /\ last.err = "none"
    /\ load_remd_runner.val = last.arg.r
    /\ load_communicator.err = "none"
    /\ load_communicator.val["_n_replicas"] = store.n_replicas
    /\ exists(data_store_path)
    /\ getstate(setstate(fs[data_store_path].obj)) = getstate(store)

\* ------------------------------------------------ properties of the channel
Issued(r, n) == Len(sent[r]) >= n
Returned(r, n) == Len(got[r]) >= n
StepsOf(kinds) == {n \in 1..ProgramLen : StepAt(n) \in kinds}
AllInitialized == \A r \in Ranks : comms[r]["_mpi_comm"] = 1
AllDone == \A r \in Ranks : Len(got[r]) = ProgramLen

\* C14: in the scatter of the lambdas, the call of every rank r, the master included,
\* returns values[r].
C14_ScalarScatter ==
    \A r \in Ranks : Returned(r, 1) => got[r][1] = sent[0][1].v[r + 1]

\* C14, amended: in the scatter of the lambdas, the call of every rank r other than
\* the master returns values[r], and the call of the master returns None.
C14_ScalarScatterToWorkers ==
    \A r \in Ranks :
        Returned(r, 1) => got[r][1] = IF r = 0 THEN None ELSE sent[0][1].v[r + 1]

\* the scatter of the lambdas has returned on every rank, with lambdas that differ
C14_Witness ==
    /\ \A r \in Ranks : Returned(r, 1)
    /\ got[NReplicas - 1][1] = sent[0][1].v[NReplicas]
    /\ sent[0][1].v[NReplicas] # sent[0][1].v[1]

\* C15: in the scatter of the states, the call of rank i returns states[i]; the call
\* of the master returns states[0].
C15_StateScatter ==
    \A n \in StepsOf({"states"}) : \A r \in Ranks :
        Returned(r, n) => got[r][n] = sent[0][n].v[r + 1]

\* the scatter of the states of the last stage has returned on every rank, with
\* states that differ
C15_Witness ==
    /\ \A r \in Ranks : Returned(r, ProgramLen - 3)
    /\ got[0][ProgramLen - 3] = sent[0][ProgramLen - 3].v[1]
    /\ got[0][ProgramLen - 3] # got[NReplicas - 1][ProgramLen - 3]

\* C16: in a gather, the result of the master has one entry per rank and entry i is
\* what rank i passed, in whatever order the ranks made their calls; the gather of
\* the energies gives a square matrix whose row i is the vector of rank i.
C16_Gather ==
    /\ \A n \in StepsOf({"gather_states"}) :
         Returned(0, n) =>
            /\ got[0][n].t = "list"
            /\ Len(got[0][n].v) = NReplicas
            /\ \A i \in Ranks : Issued(i, n) /\ got[0][n].v[i + 1] = sent[i][n]
    /\ \A n \in StepsOf({"gather_energies"}) :
         Returned(0, n) =>
            /\ got[0][n].t = "ndarray"
            /\ Len(got[0][n].v) = NReplicas
            /\ \A i \in Ranks :
                 /\ Issued(i, n)
                 /\ Len(got[0][n].v[i + 1]) = NReplicas
                 /\ got[0][n].v[i + 1] = sent[i][n].v

\* the gathers of the first stage have returned on the master with entries that
\* differ, while another rank is already in the call that follows
C16_Witness ==
    /\ Returned(0, 5) /\ ~Issued(0, 6)
    /\ Issued(NReplicas - 1, 6)
    /\ got[0][3].v[1] # got[0][3].v[NReplicas]
    /\ got[0][5].v[1] # got[0][5].v[NReplicas]

\* C17: in the broadcast of all states, the call of every rank other than the master
\* returns the sequence the master passed, whole and in order; the call of the master
\* returns None.
C17_Broadcast ==
    \A n \in StepsOf({"states_for_energy_calc"}) : \A r \in Ranks :
        Returned(r, n) =>
            IF r = 0 THEN got[r][n] = None
            ELSE /\ got[r][n].t = "list"
                 /\ Len(got[r][n].v) = NReplicas
                 /\ got[r][n] = sent[0][n]

\* the broadcast of the first stage has returned on every rank, with states that differ
C17_Witness ==
    /\ \A r \in Ranks : Returned(r, 4)
    /\ got[NReplicas - 1][4].v[1] # got[NReplicas - 1][4].v[NReplicas]

C19_UninitializedFails ==
    \A c \in {MPICommunicator(store.n_atoms, store.n_replicas, store.n_springs)}
              \cup (IF load_communicator.err = "none" THEN {load_communicator.val} ELSE {}) :
        c["_mpi_comm"] = 0 =>
            /\ transfer_err(c) # "none"
            /\ rank(c).err # "none"

AfterSenders ==
    /\ \A n \in StepsOf({"states", "states_for_energy_calc"}) : \A r \in Ranks :
         Issued(r, n + 1) => Issued(0, n)
    /\ \A n \in StepsOf({"gather_states"}) :
         Issued(0, n + 1) => \A q \in Ranks : Issued(q, n)

C21_BackupSkipsMissing ==
    [][\A stage \in Stages :
         (backup(stage) /\ stage % store.backup_freq = 0 /\ store.h5_file # "None") =>
           /\ last'.err = "none"
           /\ \A p \in Sidecars :
                IF exists(p)
                THEN fs'[_make_backup_path(p)] = fs[p]
                ELSE fs'[_make_backup_path(p)] = Absent
           /\ exists(h5_path)
           /\ fs'[_make_backup_path(h5_path)] = fs[h5_path]
           /\ store'.h5_file = "a"
           /\ last'.opened = 1 /\ last'.closed = 1]_vars

\* a due backup has returned with a sidecar copied and another one missing
C21_Witness ==
    /\ last.op = "backup" /\ last.err = "none" /\ last.opened = 1
    /\ \E p \in Sidecars : exists(p) /\ fs[_make_backup_path(p)] = fs[p]
    /\ \E p \in Sidecars : ~exists(p) /\ ~exists(_make_backup_path(p))
    /\ fs[_make_backup_path(h5_path)] = fs[h5_path]

\* C22: close raises nothing on a store that was never initialized, is open or is
\* closed already; it leaves the handle unset and the files as they were, and a close
\* after a close changes nothing.
C22_CloseIdempotent ==
    [][close =>
         /\ last'.err = "none"
         /\ store' = [store EXCEPT !.h5_file = "None"]
         /\ fs' = fs
         /\ store.h5_file = "None" => (store' = store /\ last'.closed = 0)]_vars

\* close has been called on a store that a close had left without handle, with data
\* in the container
C22_Witness ==
    /\ last.op = "close" /\ last.err = "none" /\ last.closed = 0
    /\ store.h5_file = "None"
    /\ exists(h5_path)
    /\ \A q \in Quantities : q \in DOMAIN fs[h5_path].ds

\* C23: an initialize call on a store that an earlier initialize has opened, whether
\* it is still open or has been closed since, is rejected and leaves the store with
\* the handle it had: no second handle is opened.
C23_InitializeOnce ==
    [][\A mode \in Modes :
         (/\ initialize(mode)
          /\ store.h5_file # "None" \/ (last.op = "close" /\ last.closed = 1)) =>
           /\ last'.err # "none"
           /\ store' = store
           /\ last'.opened = 0]_vars

\* C24: a backup changes no file of Data/, and when a due backup returns every file
\* of Data/ that exists has a copy in Data/Backup/ with the content the file had when
\* backup was called.
C24_BackupCopies ==
    [][\A stage \in Stages :
         backup(stage) =>
           /\ \A p \in LiveFiles : fs'[p] = fs[p]
           /\ (stage % store.backup_freq = 0 /\ last'.err = "none") =>
                \A p \in LiveFiles : exists(p) => fs'[backup_dir \o <<p[Len(p)]>>] = fs[p]]_vars

\* a due backup has returned with the copy of a container that holds saved data
C24_Witness ==
    /\ last.op = "backup" /\ last.err = "none" /\ last.opened = 1
    /\ \A q \in Quantities : q \in DOMAIN fs[h5_path].ds
    /\ \E q \in Quantities : fs[h5_path].ds[q].slices[1] # Zeros(fs[h5_path].ds[q].shape)
    /\ \A p \in LiveFiles : exists(p) => fs[backup_dir \o <<p[Len(p)]>>] = fs[p]

\* C25: save_Q(v, s) changes at most the slice of stage s of the series Q: every other
\* slice of every series loads as before, every save has the outcome it would have
\* had, and no file but the container changes.
C25_SaveFrame ==
    [][(last'.op \in SaveOps /\ nops' = nops + 1) =>
         /\ \A p \in Paths \ {h5_path} : fs'[p] = fs[p]
         /\ store' = store
         /\ \A q \in Quantities, s \in Stages :
              (q # QuantityOf(last'.op) \/ s # last'.stage) =>
                 load_slice(q, s)' = load_slice(q, s)]_vars

\* a save has written a series of a container in which another series holds data
C25_Witness ==
    /\ last.op \in SaveOps /\ last.err = "none" /\ Initialized
    /\ load_slice(QuantityOf(last.op), last.stage).val = last.arg.a
    /\ \E q \in Quantities \ {QuantityOf(last.op)} :
         fs[h5_path].ds[q].slices[1] # Zeros(fs[h5_path].ds[q].shape)

\* C26: a due backup on a store without open handle raises and has no effect: no
\* file of Data/Backup/ is made or written, and the handle stays unset.
C26_ClosedBackupNoEffect ==
    [][\A stage \in Stages :
         (backup(stage) /\ stage % store.backup_freq = 0 /\ store.h5_file = "None") =>
           /\ last'.err # "none"
           /\ \A p \in BackupFiles : fs'[p] = fs[p]
           /\ store'.h5_file = "None"]_vars

====
